---- MODULE Spec2Model ----
(***************************************************************************)
(* Primitive Math (src/main.ts): natural numbers as a magnitude plus an    *)
(* ordered queue of deferred operations, with INC/DEC as primitives and    *)
(* ADD/SUB/MUL/DIV derived from them through N.op and N.evaluate.          *)
(*                                                                         *)
(* A Value is the record [value, deferred]; an operation is a record       *)
(* [name] (INC, DEC) or [name, b] (ADD, SUB, MUL, DIV with the captured    *)
(* operand b).  Every method of the source is an operator that takes the   *)
(* static counter N.#evalauateStackDepth as it is on entry and returns the *)
(* record [n, depth, status]: the returned Value, the counter on exit and  *)
(* how the call ended ("ok", "thrown" by the constructor, or "diverged"    *)
(* when a while loop of the source never exits).  The counter is carried   *)
(* as [now, hi, lo, limit]: its value, the highest and lowest value it has *)
(* taken since the public call began, and the literal its guard compares   *)
(* it with.                                                                *)
(***************************************************************************)
EXTENDS Integers, Sequences, FiniteSets, TLC

VARIABLES x, y, depth, calls, status, last

vars == <<x, y, depth, calls, status, last>>

\* Largest magnitude the caller passes to the constructor.
MaxVal == 3
\* Number of op()/evaluate() calls the caller makes in one run.
MaxCalls == 2
\* The caller stops calling once a register's magnitude exceeds this.
MaxMag == 12
\* Iterations granted to one while loop before it is reported as diverged.
MaxLoop == MaxMag + 2
\* main.ts:30  if (N.#evalauateStackDepth > 10)
MaxDepth == 10

RECURSIVE evaluate(_, _)
RECURSIVE DrainLoop(_, _, _)
RECURSIVE op(_, _, _)
RECURSIVE execute(_, _, _)
RECURSIVE ADD_loop(_, _, _, _)
RECURSIVE SUB_loop(_, _, _, _)
RECURSIVE MUL_loop(_, _, _, _, _)
RECURSIVE DIV_loop(_, _, _, _, _)
RECURSIVE toString(_)
RECURSIVE join(_)

----------------------------------------------------------------------------
(* Values, operations and call outcomes *)

N(value, deferred) == [value |-> value, deferred |-> deferred]

ZERO == N(0, <<>>)
ONE == N(1, <<>>)

INC == [name |-> "INC"]
DEC == [name |-> "DEC"]
ADD(b) == [name |-> "ADD", b |-> b]
SUB(b) == [name |-> "SUB", b |-> b]
MUL(b) == [name |-> "MUL", b |-> b]
DIV(b) == [name |-> "DIV", b |-> b]

Unary == {"INC", "DEC"}
Binary == {"ADD", "SUB", "MUL", "DIV"}

Return(n, d) == [n |-> n, depth |-> d, status |-> "ok"]
Throw(n, d) == [n |-> n, depth |-> d, status |-> "thrown"]
Hang(n, d) == [n |-> n, depth |-> d, status |-> "diverged"]

\* The static counter holding v at the start of a public call.
Counter(v) == [now |-> v, hi |-> v, lo |-> v, limit |-> MaxDepth]

\* The same counter in a build whose guard reads "> limit" instead.
CounterWith(v, limit) == [now |-> v, hi |-> v, lo |-> v, limit |-> limit]

\* N.#evalauateStackDepth++ and N.#evalauateStackDepth--
Incr(d) == [now |-> d.now + 1, limit |-> d.limit,
            hi |-> IF d.now + 1 > d.hi THEN d.now + 1 ELSE d.hi,
            lo |-> d.lo]
Decr(d) == [now |-> d.now - 1, limit |-> d.limit,
            hi |-> d.hi,
            lo |-> IF d.now - 1 < d.lo THEN d.now - 1 ELSE d.lo]

\* constructor: throws on a negative magnitude, else stores both fields.
New(value, deferred, d) ==
    IF value < 0 THEN Throw(N(value, deferred), d)
    ELSE Return(N(value, deferred), d)

\* A loop variable b that b.op(DEC) hands back with the same magnitude and
\* the DEC merely queued behind its unchanged deferred operations: draining
\* stopped before the new DEC, so it stops at the same place on every later
\* iteration and the magnitude the loop tests never changes.
Stuck(b, nb) == nb = N(b.value, Append(b.deferred, DEC))

----------------------------------------------------------------------------
(* N.evaluate, N.op and the execute methods *)

\* evaluate() whose depth guard lets one more level in.
evaluate_late(this, d) ==
    LET d1 == Incr(d) IN
    IF d1.now > d1.limit + 1 THEN Return(this, Decr(d1))
    ELSE LET c == New(this.value, <<>>, d1) IN
         IF c.status # "ok" THEN c
         ELSE DrainLoop(c.n, this.deferred, d1)

\* evaluate() whose depth guard returns without decrementing the counter.
evaluate_leak(this, d) ==
    LET d1 == Incr(d) IN
    IF d1.now > d1.limit THEN Return(this, d1)
    ELSE LET c == New(this.value, <<>>, d1) IN
         IF c.status # "ok" THEN c
         ELSE DrainLoop(c.n, this.deferred, d1)

evaluate(this, d) ==
    LET d1 == Incr(d) IN
    IF d1.now > d1.limit THEN Return(this, Decr(d1))
    ELSE LET c == New(this.value, <<>>, d1) IN
         IF c.status # "ok" THEN c
         ELSE DrainLoop(c.n, this.deferred, d1)

\* the while (true) loop of evaluate: current, ops, and the counter.
\* evaluate() that returns the new deferred work and forgets the untried
\* operations.
DrainLoop_droprest(current, ops, d) ==
    IF ops = <<>> THEN Return(current, Decr(d))
    ELSE LET r == execute(Head(ops), current, d) IN
         IF r.status # "ok" THEN r
         ELSE IF Len(r.n.deferred) > 0
              THEN New(r.n.value, r.n.deferred, Decr(r.depth))
              ELSE DrainLoop(r.n, Tail(ops), r.depth)

\* evaluate() that hands back the untried operations ahead of the new
\* deferred work.
DrainLoop_restfirst(current, ops, d) ==
    IF ops = <<>> THEN Return(current, Decr(d))
    ELSE LET r == execute(Head(ops), current, d) IN
         IF r.status # "ok" THEN r
         ELSE IF Len(r.n.deferred) > 0
              THEN New(r.n.value, Tail(ops) \o r.n.deferred, Decr(r.depth))
              ELSE DrainLoop(r.n, Tail(ops), r.depth)

DrainLoop(current, ops, d) ==
    IF ops = <<>> THEN Return(current, Decr(d))
    ELSE LET r == execute(Head(ops), current, d) IN
         IF r.status # "ok" THEN r
         ELSE IF Len(r.n.deferred) > 0
              THEN New(r.n.value, r.n.deferred \o Tail(ops), Decr(r.depth))
              ELSE DrainLoop(r.n, Tail(ops), r.depth)

op(this, operation, d) ==
    LET c == New(this.value, Append(this.deferred, operation), d) IN
    IF c.status # "ok" THEN c ELSE evaluate(c.n, d)

\* INC.execute that leaves the magnitude as it was.
INC_execute_noop(n, d) == New(n.value, n.deferred, d)

INC_execute(n, d) == New(n.value + 1, n.deferred, d)

\* DEC.execute that queues one more DEC on the way back from the nested
\* call at zero.
DEC_execute_stacking(n, d) ==
    IF n.value = 0
    THEN LET r == op(n, DEC, d) IN
         IF r.status # "ok" THEN r
         ELSE New(r.n.value, Append(r.n.deferred, DEC), r.depth)
    ELSE New(n.value - 1, n.deferred, d)

\* DEC.execute without the test for zero.
DEC_execute_unchecked(n, d) == New(n.value - 1, n.deferred, d)

DEC_execute(n, d) ==
    IF n.value = 0 THEN op(n, DEC, d)
    ELSE New(n.value - 1, n.deferred, d)

\* ADD.execute whose loop stops one unit early (b.value > 1n).
ADD_loop_short(a, b, d, fuel) ==
    IF b.value > 1
    THEN LET ra == op(a, INC, d) IN
         LET rb == op(b, DEC, ra.depth) IN
         IF rb.status # "ok" THEN rb
         ELSE ADD_loop(ra.n, rb.n, rb.depth, fuel)
    ELSE Return(a, d)

ADD_loop(a, b, d, fuel) ==
    IF b.value > 0
    THEN IF fuel = 0 THEN Hang(a, d)
         ELSE LET ra == op(a, INC, d) IN
              IF ra.status # "ok" THEN ra
              ELSE LET rb == op(b, DEC, ra.depth) IN
                   IF rb.status # "ok" THEN rb
                   ELSE IF Stuck(b, rb.n) THEN Hang(ra.n, rb.depth)
                   ELSE ADD_loop(ra.n, rb.n, rb.depth, fuel - 1)
    ELSE IF Len(b.deferred) > 0 THEN op(a, ADD(b), d)
    ELSE Return(a, d)

ADD_execute(b, a, d) == ADD_loop(a, b, d, MaxLoop)

\* SUB.execute that counts b down without touching a.
SUB_loop_idle(a, b, d, fuel) ==
    IF b.value > 0
    THEN LET rb == op(b, DEC, d) IN
         IF rb.status # "ok" THEN rb
         ELSE SUB_loop(a, rb.n, rb.depth, fuel)
    ELSE Return(a, d)

SUB_loop(a, b, d, fuel) ==
    IF b.value > 0
    THEN IF fuel = 0 THEN Hang(a, d)
         ELSE LET ra == op(a, DEC, d) IN
              IF ra.status # "ok" THEN ra
              ELSE LET rb == op(b, DEC, ra.depth) IN
                   IF rb.status # "ok" THEN rb
                   ELSE IF Stuck(b, rb.n) THEN Hang(ra.n, rb.depth)
                   ELSE SUB_loop(ra.n, rb.n, rb.depth, fuel - 1)
    ELSE IF Len(b.deferred) > 0 THEN op(a, ADD(b), d)
    ELSE Return(a, d)

SUB_execute(b, a, d) == SUB_loop(a, b, d, MaxLoop)

\* MUL.execute looping while counter.value > 0n.
MUL_loop_extra(n, a, counter, d, fuel) ==
    IF counter.value > 0
    THEN LET ra == op(a, ADD(n), d) IN
         LET rc == op(counter, DEC, ra.depth) IN
         IF ra.status # "ok" THEN ra
         ELSE IF rc.status # "ok" THEN rc
         ELSE MUL_loop(n, ra.n, rc.n, rc.depth, fuel)
    ELSE Return(a, d)

MUL_loop(n, a, counter, d, fuel) ==
    IF counter.value > 1
    THEN IF fuel = 0 THEN Hang(a, d)
         ELSE LET ra == op(a, ADD(n), d) IN
              IF ra.status # "ok" THEN ra
              ELSE LET rc == op(counter, DEC, ra.depth) IN
                   IF rc.status # "ok" THEN rc
                   ELSE IF Stuck(counter, rc.n) THEN Hang(ra.n, rc.depth)
                   ELSE MUL_loop(n, ra.n, rc.n, rc.depth, fuel - 1)
    ELSE Return(a, d)

MUL_execute(b, a, d) == MUL_loop(a, a, b, d, MaxLoop)

\* DIV.execute looping only while remainder.value > b.value.
DIV_loop_strict(b, quotient, remainder, d, fuel) ==
    IF remainder.value > b.value /\ b.value > 0
    THEN LET rr == op(remainder, SUB(b), d) IN
         LET rq == op(quotient, INC, rr.depth) IN
         IF rr.status # "ok" THEN rr
         ELSE DIV_loop(b, rq.n, rr.n, rq.depth, fuel)
    ELSE IF remainder.value = 0 THEN Return(quotient, d)
    ELSE LET rd == op(remainder, DIV(b), d) IN
         IF rd.status # "ok" THEN rd
         ELSE op(quotient, ADD(rd.n), rd.depth)

DIV_loop(b, quotient, remainder, d, fuel) ==
    IF remainder.value >= b.value /\ b.value > 0
    THEN IF fuel = 0 THEN Hang(quotient, d)
         ELSE LET rr == op(remainder, SUB(b), d) IN
              IF rr.status # "ok" THEN rr
              ELSE LET rq == op(quotient, INC, rr.depth) IN
                   IF rq.status # "ok" THEN rq
                   ELSE DIV_loop(b, rq.n, rr.n, rq.depth, fuel - 1)
    ELSE IF remainder.value = 0 THEN Return(quotient, d)
    ELSE LET rd == op(remainder, DIV(b), d) IN
         IF rd.status # "ok" THEN rd
         ELSE op(quotient, ADD(rd.n), rd.depth)

\* DIV.execute that raises an error for a zero divisor.
DIV_execute_throwing(b, a, d) ==
    IF b.value = 0 THEN Throw(a, d)
    ELSE DIV_loop(b, ZERO, a, d, MaxLoop)

DIV_execute(b, a, d) == DIV_loop(b, ZERO, a, d, MaxLoop)

execute(operation, n, d) ==
    CASE operation.name = "INC" -> INC_execute(n, d)
      [] operation.name = "DEC" -> DEC_execute(n, d)
      [] operation.name = "ADD" -> ADD_execute(operation.b, n, d)
      [] operation.name = "SUB" -> SUB_execute(operation.b, n, d)
      [] operation.name = "MUL" -> MUL_execute(operation.b, n, d)
      [] operation.name = "DIV" -> DIV_execute(operation.b, n, d)

----------------------------------------------------------------------------
(* Rendering *)

\* OP.toString: the name field, which the binary constructors build as
\* NAME(<operand>) from the operand's own toString.
OpToString(operation) ==
    IF operation.name \in Unary THEN operation.name
    ELSE operation.name \o "(" \o toString(operation.b) \o ")"

\* Array.prototype.join(", ") over the operations' strings.
\* join with a bare comma between the operations.
join_nospace(ops) ==
    IF ops = <<>> THEN ""
    ELSE IF Len(ops) = 1 THEN OpToString(ops[1])
    ELSE OpToString(ops[1]) \o "," \o join(Tail(ops))

join(ops) ==
    IF ops = <<>> THEN ""
    ELSE IF Len(ops) = 1 THEN OpToString(ops[1])
    ELSE OpToString(ops[1]) \o ", " \o join(Tail(ops))

toString(n) ==
    IF Len(n.deferred) > 0
    THEN ToString(n.value) \o "[" \o join(n.deferred) \o "]"
    ELSE ToString(n.value)

----------------------------------------------------------------------------
(* The caller: two Values in hand, a bounded number of public calls *)

Operation(name, other) ==
    CASE name = "INC" -> INC
      [] name = "DEC" -> DEC
      [] name = "ADD" -> ADD(other)
      [] name = "SUB" -> SUB(other)
      [] name = "MUL" -> MUL(other)
      [] name = "DIV" -> DIV(other)

Literals == {N(v, <<>>) : v \in 0..MaxVal}

NoCall == [op |-> "none"]

Init ==
    /\ x \in Literals
    /\ y \in Literals
    /\ depth = 0
    /\ calls = 0
    /\ status = "ok"
    /\ last = NoCall

CanCall ==
    /\ status = "ok"
    /\ calls < MaxCalls
    /\ x.value <= MaxMag
    /\ y.value <= MaxMag

\* The call's record: receiver, operand, counter on entry, the outcome, and
\* the highest and lowest value the counter took during the call.
Record(name, r) ==
    [op |-> name, a |-> x, b |-> y, d0 |-> depth, r |-> r.n, status |-> r.status,
     hi |-> r.depth.hi, lo |-> r.depth.lo]

\* The caller keeps the returned Value as the receiver of its next call; a
\* call that throws or never returns leaves the caller with nothing new.
Finish(name, r) ==
    /\ depth' = r.depth.now
    /\ status' = r.status
    /\ calls' = calls + 1
    /\ last' = Record(name, r)
    /\ x' = IF r.status = "ok" THEN r.n ELSE x
    /\ y' = y

\* x.op(OP) for a unary OP: new params.op().
CallUnary(name) ==
    /\ CanCall
    /\ Finish(name, op(x, Operation(name, ZERO), Counter(depth)))

\* x.op(OP, y) for a binary OP: new params.op(params.other).
CallBinary(name) ==
    /\ CanCall
    /\ Finish(name, op(x, Operation(name, y), Counter(depth)))

\* x.evaluate() called directly.
CallEvaluate ==
    /\ CanCall
    /\ Finish("evaluate", evaluate(x, Counter(depth)))

\* new N(v) bound to one of the two names, while calls are still to come.
NewX(v) ==
    /\ status = "ok"
    /\ calls < MaxCalls
    /\ x' = N(v, <<>>)
    /\ last' = NoCall
    /\ UNCHANGED <<y, depth, calls, status>>

NewY(v) ==
    /\ status = "ok"
    /\ calls < MaxCalls
    /\ y' = N(v, <<>>)
    /\ last' = NoCall
    /\ UNCHANGED <<x, depth, calls, status>>

\* the Value in hand passed as the operand of the next call
\* (tenDivThree.op(ADD, tenDivThree)).
Reuse ==
    /\ status = "ok"
    /\ calls < MaxCalls
    /\ y # x
    /\ y' = x
    /\ last' = NoCall
    /\ UNCHANGED <<x, depth, calls, status>>

Next ==
    \/ \E name \in Unary : CallUnary(name)
    \/ \E name \in Binary : CallBinary(name)
    \/ CallEvaluate
    \/ \E v \in 0..MaxVal : NewX(v)
    \/ \E v \in 0..MaxVal : NewY(v)
    \/ Reuse

Spec == Init /\ [][Next]_vars

----------------------------------------------------------------------------
(* Helpers for the properties *)

Clean(n) == n.deferred = <<>>

\* The last public call was x.op(name ...) on a receiver and an operand
\* without pending work.
CleanUnary(name) == last.op = name /\ Clean(last.a)
CleanBinary(name) == last.op = name /\ Clean(last.a) /\ Clean(last.b)

AllDEC(ops) == \A i \in 1..Len(ops) : ops[i] = DEC

\* Length of the runs of INC/DEC calls tried from one receiver.
MaxRun == 3

Runs == UNION {[1..k -> Unary] : k \in 0..MaxRun}

Net(s) ==
    Cardinality({i \in 1..Len(s) : s[i] = "INC"})
        - Cardinality({i \in 1..Len(s) : s[i] = "DEC"})

NeverBelowZero(v, s) == \A i \in 0..Len(s) : v + Net(SubSeq(s, 1, i)) >= 0

\* counter = counter.op(INC) / counter.op(DEC), one call after the other.
RECURSIVE Walk(_, _, _)
RECURSIVE Stable(_, _, _, _)
RECURSIVE NonNeg(_)
RECURSIVE Rendered(_)
RECURSIVE RenderedOps(_, _)
RECURSIVE Scan(_, _, _)
Walk(n, s, d) ==
    IF s = <<>> THEN Return(n, d)
    ELSE LET r == op(n, Operation(s[1], ZERO), d) IN
         IF r.status # "ok" THEN r ELSE Walk(r.n, Tail(s), r.depth)

----------------------------------------------------------------------------
(* C1 *)

\* C1: every N.op(...) call terminates and returns a Value, whatever the
\* receiver and the operand, operands with pending work included.
C1_EveryCallReturns == last.op \in Unary \cup Binary => last.status = "ok"

----------------------------------------------------------------------------
(* C2 *)

\* C2: for clean N(a), N(b) whose division leaves a remainder r # 0, the
\* result of N(a).op(DIV, N(b)) is q with the single deferred operation
\* ADD(r[DIV(b)]) and renders as "q[ADD(r[DIV(b)])]".
C2_RemainderIsOneDeferredDivision ==
    /\ CleanBinary("DIV")
    /\ \/ last.b.value = 0 /\ last.a.value > 0
       \/ last.b.value > 0 /\ last.a.value % last.b.value # 0
    => LET a == last.a.value
           b == last.b.value
           q == IF b = 0 THEN 0 ELSE a \div b
           r == IF b = 0 THEN a ELSE a % b
       IN /\ last.status = "ok"
          /\ last.r = N(q, <<ADD(N(r, <<DIV(last.b)>>))>>)
          /\ toString(last.r) = ToString(q) \o "[ADD(" \o ToString(r)
                                  \o "[DIV(" \o ToString(b) \o ")])]"

----------------------------------------------------------------------------
(* C3 *)

\* C3: for clean N(a), N(b) with b > 0 the result of N(a).op(DIV, N(b)) has
\* value floor(a/b); its queue is empty exactly when b divides a (and then
\* value * b = a), and otherwise holds exactly one operation with
\* value * b < a.
C3_DivisionInvariant ==
    CleanBinary("DIV") /\ last.b.value > 0
    => LET a == last.a.value
           b == last.b.value
       IN /\ last.status = "ok"
          /\ last.r.value = a \div b
          /\ Clean(last.r) <=> a % b = 0
          /\ Clean(last.r) => last.r.value * b = a
          /\ ~Clean(last.r) => Len(last.r.deferred) = 1 /\ last.r.value * b < a

\* 5 / 3 (or any division with quotient and remainder both positive) returned.
C3_Witness ==
    /\ CleanBinary("DIV")
    /\ last.status = "ok"
    /\ last.b.value > 0
    /\ last.r.value > 0
    /\ Len(last.r.deferred) = 1

----------------------------------------------------------------------------
(* C4 *)

\* C4: N(a).op(DIV, ZERO()) on a clean N(a) returns without throwing: value
\* 0 with exactly one deferred operation when a > 0, value 0 with none when
\* a = 0.
C4_DivisionByZeroIsAValue ==
    CleanBinary("DIV") /\ last.b.value = 0
    => /\ last.status = "ok"
       /\ last.r.value = 0
       /\ last.a.value > 0 => Len(last.r.deferred) = 1
       /\ last.a.value = 0 => last.r.deferred = <<>>

\* 5 / 0 returned.
C4_Witness ==
    /\ CleanBinary("DIV")
    /\ last.b.value = 0
    /\ last.a.value = 5
    /\ last.status = "ok"
    /\ Len(last.r.deferred) = 1

----------------------------------------------------------------------------
(* C5 *)

\* C5: for clean N(a), N(b), N(a).op(SUB, N(b)) is a - b with nothing
\* deferred when a >= b, and 0 with exactly b - a deferred operations, all
\* DEC, when a < b; no negative magnitude is constructed.
C5_SubtractionDefersTheDebt ==
    CleanBinary("SUB")
    => LET a == last.a.value
           b == last.b.value
       IN /\ last.status = "ok"
          /\ a >= b => last.r = N(a - b, <<>>)
          /\ a < b => /\ last.r.value = 0
                      /\ Len(last.r.deferred) = b - a
                      /\ AllDEC(last.r.deferred)

\* 3 - 5 returned "0[DEC, DEC]".
C5_Witness ==
    /\ CleanBinary("SUB")
    /\ last.a.value = 3
    /\ last.b.value = 5
    /\ last.status = "ok"
    /\ toString(last.r) = "0[DEC, DEC]"

----------------------------------------------------------------------------
(* C6 *)

\* C6: for clean N(a), N(b), zero included, N(a).op(ADD, N(b)) has value
\* a + b and nothing deferred.
C6_AdditionOfCleanValues ==
    CleanBinary("ADD")
    => last.status = "ok" /\ last.r = N(last.a.value + last.b.value, <<>>)

\* 5 + 3 returned 8.
C6_Witness ==
    /\ CleanBinary("ADD")
    /\ last.a.value = 5
    /\ last.b.value = 3
    /\ last.r = N(8, <<>>)

----------------------------------------------------------------------------
(* C7 *)

\* C7: for clean N(a), N(b) with b >= 1, N(a).op(MUL, N(b)) has value a * b,
\* nothing deferred, and renders as the bare product; the receiver may be
\* the clean result of an earlier op.
C7_MultiplicationByPositive ==
    CleanBinary("MUL") /\ last.b.value >= 1
    => /\ last.status = "ok"
       /\ last.r = N(last.a.value * last.b.value, <<>>)
       /\ toString(last.r) = ToString(last.a.value * last.b.value)

\* A product whose receiver was the result of an earlier call (it is larger
\* than any literal), as in (2 + 3) * 2.
C7_Witness ==
    /\ calls = 2
    /\ CleanBinary("MUL")
    /\ last.a.value > MaxVal
    /\ last.b.value >= 2
    /\ last.r = N(last.a.value * last.b.value, <<>>)

----------------------------------------------------------------------------
(* C8 *)

\* C8: for every receiver a and clean operand b with a.value = 0 or
\* b.value = 0, a.op(MUL, b) is ZERO: value 0 and nothing deferred.
C8_ZeroTimesAnythingIsZero ==
    /\ last.op = "MUL"
    /\ Clean(last.b)
    /\ last.a.value = 0 \/ last.b.value = 0
    => last.status = "ok" /\ last.r = ZERO

----------------------------------------------------------------------------
(* C9 *)

\* C9: on a clean N(x), op(INC) gives x + 1 with nothing deferred; op(DEC)
\* gives x - 1 with nothing deferred when x > 0 and 0 with deferred exactly
\* [DEC] when x = 0; so a run of INC/DEC calls from a clean N(x) whose
\* running total never drops below 0 ends at x + #INC - #DEC, nothing
\* deferred.
C9_PrimitiveSteps ==
    /\ CleanUnary("INC")
       => last.status = "ok" /\ last.r = N(last.a.value + 1, <<>>)
    /\ CleanUnary("DEC") /\ last.a.value > 0
       => last.status = "ok" /\ last.r = N(last.a.value - 1, <<>>)
    /\ CleanUnary("DEC") /\ last.a.value = 0
       => last.status = "ok" /\ last.r = N(0, <<DEC>>)
    /\ last.op \in Unary /\ Clean(last.a)
       => \A s \in Runs :
            NeverBelowZero(last.a.value, s)
            => LET w == Walk(last.a, s, Counter(last.d0)) IN
               /\ w.status = "ok"
               /\ w.n = N(last.a.value + Net(s), <<>>)
               /\ w.depth.now = last.d0

\* A second DEC in a row that met zero: 1, DEC, DEC gives "0[DEC]".
C9_Witness ==
    /\ calls = 2
    /\ CleanUnary("DEC")
    /\ last.a.value = 0
    /\ last.r = N(0, <<DEC>>)

----------------------------------------------------------------------------
(* C10 *)

\* C10: for clean a < b and clean c >= b - a, the deferred decrements of
\* N(a).op(SUB, N(b)) are consumed by .op(ADD, N(c)): the result is
\* c - (b - a) with nothing deferred.
C10_AdditionConsumesDebt ==
    \A a, b \in 0..MaxVal :
        /\ a < b
        /\ last.op = "ADD"
        /\ last.a = op(N(a, <<>>), SUB(N(b, <<>>)), Counter(0)).n
        /\ Clean(last.b)
        /\ last.b.value >= b - a
        => last.status = "ok" /\ last.r = N(last.b.value - (b - a), <<>>)

----------------------------------------------------------------------------
(* C11 *)

\* The Value N(a).op(DIV, N(b)) returns to a caller whose counter is 0.
Quotient(a, b) == op(N(a, <<>>), DIV(N(b, <<>>)), Counter(0)).n

\* C11: for clean a, b > 0, c > 0 with b dividing a * c,
\* N(a).op(DIV, N(b)).op(MUL, N(c)) has value a * c / b and nothing
\* deferred; in particular (a / b) * b = a.
C11_MultiplyFoldsRemainderBack ==
    \A a \in 0..MaxVal, b \in 1..MaxVal :
        /\ last.op = "MUL"
        /\ Clean(last.b)
        /\ last.b.value > 0
        /\ (a * last.b.value) % b = 0
        /\ last.a = Quotient(a, b)
        => /\ last.status = "ok"
           /\ last.r = N((a * last.b.value) \div b, <<>>)

----------------------------------------------------------------------------
(* C12 *)

\* C12: for r = N(a).op(DIV, N(b)) with value q and one deferred operation
\* (b = 0 included), r.op(ADD, N(c)) with clean c has value q + c and
\* exactly one deferred operation, and r.op(ADD, r) has value 2q and
\* exactly two.
C12_AdditionKeepsRemainders ==
    \A a, b \in 0..MaxVal :
        /\ last.op = "ADD"
        /\ Len(last.a.deferred) = 1
        /\ last.a = Quotient(a, b)
        => /\ last.status = "ok"
           /\ Clean(last.b)
              => /\ last.r.value = last.a.value + last.b.value
                 /\ Len(last.r.deferred) = 1
           /\ last.b = last.a
              => /\ last.r.value = 2 * last.a.value
                 /\ Len(last.r.deferred) = 2

----------------------------------------------------------------------------
(* C13 *)

\* The stability loop of the tests evaluates a Value this many times.
MaxDrains == 3

\* current = current.evaluate(), k more times in a row, each result
\* rendering as v does.
Stable(v, current, k, d) ==
    IF k = 0 THEN TRUE
    ELSE LET r == evaluate(current, d) IN
         /\ r.status = "ok"
         /\ r.n = v \/ toString(r.n) = toString(v)
         /\ Stable(v, r.n, k - 1, r.depth)

\* C13: a Value returned by a chain of op calls renders the same after
\* one, two or three evaluate() calls in a row.
C13_DrainingIsAFixedPoint ==
    last.op \in Unary \cup Binary /\ last.status = "ok"
        => Stable(last.r, last.r, MaxDrains, Counter(depth))

\* 3 - 5 returned 0[DEC, DEC] and three more evaluations leave it so.
C13_Witness ==
    /\ last.op = "SUB"
    /\ last.status = "ok"
    /\ toString(last.r) = "0[DEC, DEC]"
    /\ Stable(last.r, last.r, MaxDrains, Counter(depth))

----------------------------------------------------------------------------
(* C14 *)

\* C14: for clean magnitudes a >= b >= 0, N(a).op(SUB, N(b)).op(ADD, N(b))
\* has value a and an empty queue.
C14_AddUndoesSubtract ==
    \A a \in 0..MaxVal :
        /\ last.op = "ADD"
        /\ Clean(last.b)
        /\ a >= last.b.value
        /\ last.a = op(N(a, <<>>), SUB(last.b), Counter(0)).n
        => last.status = "ok" /\ last.r = N(a, <<>>)

\* (3 - 2) + 2 returned 3.
C14_Witness ==
    /\ calls = 2
    /\ last.op = "ADD"
    /\ last.b = N(2, <<>>)
    /\ last.a = op(N(3, <<>>), SUB(N(2, <<>>)), Counter(0)).n
    /\ last.r = N(3, <<>>)

----------------------------------------------------------------------------
(* C15 *)

\* C15: whenever a top-level op() or evaluate() call has returned the
\* static counter is 0 again, so every top-level call starts from 0
\* whatever was executed before it.
C15_CounterScopedToTopLevelCall ==
    /\ status = "ok" => depth = 0
    /\ last.op # "none" => last.d0 = 0

\* A second call in a row ran into the depth guard and returned with the
\* counter back at 0.
C15_Witness ==
    /\ calls = 2
    /\ last.op # "none"
    /\ last.status = "ok"
    /\ last.hi = MaxDepth + 1
    /\ depth = 0

----------------------------------------------------------------------------
(* C16 *)

\* n and every operand captured in its queue, recursively, has value >= 0.
NonNeg(n) ==
    /\ n.value >= 0
    /\ \A i \in 1..Len(n.deferred) :
          n.deferred[i].name \in Binary => NonNeg(n.deferred[i].b)

\* C16: no op call makes the constructor throw, and every Value held by
\* the caller (receivers, operands, results and the operands captured in
\* their queues) has value >= 0.
C16_MagnitudesNeverNegative ==
    /\ status # "thrown"
    /\ NonNeg(x) /\ NonNeg(y)
    /\ last.op # "none" =>
          /\ last.status # "thrown"
          /\ NonNeg(last.a) /\ NonNeg(last.b) /\ NonNeg(last.r)

\* 0 - MaxVal returned a Value of magnitude 0 instead of throwing.
C16_Witness ==
    /\ last.op = "SUB"
    /\ last.a = ZERO
    /\ last.b = N(MaxVal, <<>>)
    /\ last.status = "ok"
    /\ last.r.value = 0
    /\ Len(last.r.deferred) = MaxVal

----------------------------------------------------------------------------
(* C18 *)

\* The stated format, built from the front of the queue one operation at a
\* time: the first i operations of n, each a bare name or
\* NAME(<operand rendered>), separated by ", ".
RenderedOps(n, i) ==
    IF i = 0 THEN ""
    ELSE LET o == n.deferred[i]
             text == IF o.name \in {"INC", "DEC"} THEN o.name
                     ELSE o.name \o "(" \o Rendered(o.b) \o ")"
         IN IF i = 1 THEN text ELSE RenderedOps(n, i - 1) \o ", " \o text

Rendered(n) ==
    IF n.deferred = <<>> THEN ToString(n.value)
    ELSE ToString(n.value) \o "[" \o RenderedOps(n, Len(n.deferred)) \o "]"

----------------------------------------------------------------------------
(* C19 *)

\* Walks queue q from operation i on, each operation applied to the clean
\* working Value w left by the ones before it, inside an evaluate() entered
\* by the caller, up to the first operation whose result carries deferred
\* work: at is that operation's index (0 when there is none) and w the
\* last result.
Scan(w, q, i) ==
    IF i > Len(q) THEN [at |-> 0, w |-> w]
    ELSE LET r == execute(q[i], w, Incr(Counter(0))).n IN
         IF Clean(r) THEN Scan(r, q, i + 1) ELSE [at |-> i, w |-> r]

\* What the ordering rule says evaluate() returns for magnitude v.value and
\* queue q.
Expected(v, q) ==
    LET s == Scan(N(v.value, <<>>), q, 1) IN
    IF s.at = 0 THEN s.w
    ELSE N(s.w.value, s.w.deferred \o SubSeq(q, s.at + 1, Len(q)))

\* The queue a call hands to evaluate(): the receiver's, with the new
\* operation last when the call is an op().
Queue(name, a, b) ==
    IF name = "evaluate" THEN a.deferred
    ELSE Append(a.deferred, Operation(name, b))

Ops(s) == [i \in 1..Len(s) |-> Operation(s[i], ZERO)]

\* C19: evaluate() applies the deferred operations left to right, each to
\* a working Value with an empty queue, and stops at the first one whose
\* result carries deferred work; it returns that result's deferred
\* operations followed by the untried operations in their original order,
\* none dropped, duplicated or reordered.  Stated for every call made and,
\* from each clean receiver evaluated, on every queue made of a run of
\* INC/DEC.
C19_DrainingKeepsOrder ==
    /\ last.op # "none" /\ last.status = "ok"
       => last.r = Expected(last.a, Queue(last.op, last.a, last.b))
    /\ last.op = "evaluate" /\ Clean(last.a)
       => \A s \in Runs :
            LET r == evaluate(N(last.a.value, Ops(s)), Counter(0))
            IN r.status = "ok" /\ r.n = Expected(last.a, Ops(s))

\* INC on a Value in debt is queued behind the debt, and a queue DEC, DEC,
\* INC on magnitude 1 stops at the second DEC with the INC kept after it.
C19_Witness ==
    /\ last.op = "INC"
    /\ last.a = N(0, <<DEC>>)
    /\ last.r = N(0, <<DEC, INC>>)
    /\ evaluate(N(1, <<DEC, DEC, INC>>), Counter(0)).n = N(0, <<DEC, INC>>)

----------------------------------------------------------------------------
(* C20 *)

\* evaluate() entered on v while the counter is MaxDepth hands v back as it
\* is and leaves the counter at MaxDepth, having touched MaxDepth + 1.
GuardedEvaluate(v) ==
    LET r == evaluate(v, Counter(MaxDepth)) IN
    /\ r.status = "ok"
    /\ r.n = v
    /\ r.depth.now = MaxDepth /\ r.depth.hi = MaxDepth + 1

\* v.op(operation) entered while the counter is MaxDepth queues the
\* operation last and executes nothing.
GuardedOp(v, operation) ==
    LET r == op(v, operation, Counter(MaxDepth)) IN
    /\ r.status = "ok"
    /\ r.n = N(v.value, Append(v.deferred, operation))
    /\ r.depth.now = MaxDepth

\* C20: evaluate() entered while the counter is already 10 executes no
\* operation, returns the receiver unchanged, with the just-appended
\* operation last, and restores the counter to 10; the counter never
\* exceeds 11 and never drops below 0 during any call.
C20_DepthBound ==
    /\ \A v \in {x, y} :
          /\ GuardedEvaluate(v)
          /\ \A name \in Unary \cup Binary : GuardedOp(v, Operation(name, y))
    /\ depth \in 0..(MaxDepth + 1)
    /\ last.op # "none" => last.lo >= 0 /\ last.hi <= MaxDepth + 1

\* A division whose nested calls ran into the guard: the counter went up
\* to MaxDepth + 1, never below 0, and the call returned.
C20_Witness ==
    /\ last.op = "DIV"
    /\ last.status = "ok"
    /\ last.hi = MaxDepth + 1
    /\ last.lo = 0
    /\ GuardedOp(x, DIV(y))

----------------------------------------------------------------------------
(* C21 *)

\* C21: for a clean N(a) and a right operand b of magnitude 0 carrying k
\* deferred DECs (b = N(x).op(SUB, N(x + k))), with a >= k, N(a).op(ADD, b)
\* has value a - k and nothing deferred.
C21_AddReplaysOperandDebt ==
    /\ last.op = "ADD"
    /\ Clean(last.a)
    /\ last.b.value = 0
    /\ Len(last.b.deferred) >= 1
    /\ AllDEC(last.b.deferred)
    /\ last.a.value >= Len(last.b.deferred)
    => /\ last.status = "ok"
       /\ last.r = N(last.a.value - Len(last.b.deferred), <<>>)

----------------------------------------------------------------------------
(* C22 *)

\* How far above MaxDepth the compared limits go.
MaxExtra == 2

\* C22: a single ADD, SUB, MUL or DIV applied at top level to clean
\* operands returns the same Value, magnitude and rendered queue, when the
\* limit is MaxDepth and when it is any larger number.
C22_LimitDoesNotAlterResults ==
    last.op \in Binary /\ Clean(last.a) /\ Clean(last.b)
        => \A limit \in (MaxDepth + 1)..(MaxDepth + MaxExtra) :
              LET r == op(last.a, Operation(last.op, last.b),
                          CounterWith(last.d0, limit))
              IN /\ r.status = last.status
                 /\ r.n.value = last.r.value
                 /\ toString(r.n) = toString(last.r)

----------------------------------------------------------------------------
(* C23 *)

\* op(DEC) on a clean zero entered with the counter at d: the recursion
\* runs up to the guard at MaxDepth + 1 and hands back one DEC, with the
\* counter at d again.
ZeroDEC(d) ==
    LET r == op(ZERO, DEC, Counter(d)) IN
    /\ r.status = "ok"
    /\ r.n = N(0, <<DEC>>)
    /\ r.depth.now = d
    /\ r.depth.lo = d
    /\ r.depth.hi = MaxDepth + 1

\* C23: op(DEC) on a clean zero-magnitude Value recurses until the counter
\* reaches 11 and, for every counter value 0..10 at entry, returns exactly
\* value 0 with deferred [DEC] and leaves the counter at its entry value.
C23_ZeroDecrementDefersOnce ==
    last.op = "DEC" /\ last.a = ZERO
        => /\ last.status = "ok"
           /\ last.r = N(0, <<DEC>>)
           /\ last.hi = MaxDepth + 1
           /\ depth = last.d0
           /\ \A d \in 0..MaxDepth : ZeroDEC(d)

\* The caller's first call was DEC on a clean zero: it came back as 0[DEC]
\* after the counter had been up to MaxDepth + 1.
C23_Witness ==
    /\ calls = 1
    /\ last.op = "DEC"
    /\ last.a = ZERO
    /\ last.r = N(0, <<DEC>>)
    /\ last.hi = MaxDepth + 1
    /\ ZeroDEC(MaxDepth)
====
